---- MODULE Spec2Model ----
(***************************************************************************)
(* Model of the Events screen (src/app/drawer/Events.tsx): the component   *)
(* state (events, loading, userId), the stored user-id lookup, the         *)
(* fetch-on-focus effect with its filter + removeDuplicateEvents pipeline, *)
(* and the delete flow.  Every await is a point where other handlers may   *)
(* run; the code between two awaits runs to completion, as in JavaScript.  *)
(***************************************************************************)
EXTENDS Integers, Sequences, FiniteSets, TLC

(* ------------------------------ bounds --------------------------------- *)
MaxLen == 3         \* longest array payload traced through the pipeline
MaxFetches == 2     \* fetchEventData invocations started in one run
MaxDeletes == 1     \* delete requests sent in one run

EventIds == {1, 2, 3}     \* the event_id values of the records
Instants == {1, 2}        \* the instants: end times and "now"
UserIds == {"7"}          \* the user_id values AsyncStorage may hold

(* ------------------------------ values --------------------------------- *)
null == "null"

\* The ISO-8601 text of instant k, as the server sends it in end_time.
IsoString(k) == "2024-01-0" \o ToString(k) \o "T00:00:00Z"

\* An end_time the Date constructor cannot parse.
Unparseable == "next friday-ish"

EndTimeStrings == {IsoString(k) : k \in Instants} \cup {Unparseable}

\* EventData, reduced to the two fields the logic reads.  Two records with
\* the same event_id and different end_time are different records.
EventData == [event_id : EventIds, end_time : EndTimeStrings]

\* A Date object: a time value, or Invalid Date (time value NaN).
InvalidDate == [valid |-> FALSE, time |-> 0]
DateOf(k) == [valid |-> TRUE, time |-> k]

\* new Date(string): the instant the text denotes, Invalid Date otherwise.
ParseDate(s) ==
  IF \E k \in Instants : IsoString(k) = s
  THEN DateOf(CHOOSE k \in Instants : IsoString(k) = s)
  ELSE InvalidDate

\* a >= b on Date objects: both are converted to numbers, and every
\* comparison with NaN is false.
DateGE(a, b) == a.valid /\ b.valid /\ a.time >= b.time

\* All sequences over S of length at most n.
SeqsUpTo(S, n) == UNION {[1..k -> S] : k \in 0..n}

\* The array payloads the running screen receives: the empty array and the
\* arrays of one record.  Longer payloads are traced through the pipeline
\* on their own, and the screen is also started from any list of up to
\* MaxLen records that a fetch can store.
Responses == SeqsUpTo(EventData, 1)

VARIABLES
  events,          \* useState<EventData[]>([])
  loading,         \* useState<boolean>(true)
  userId,          \* useState<string | null>(null)
  lookup,          \* position of getUserId: "pending" until getItem settles
  focused,         \* whether the screen has focus (useFocusEffect)
  fetches,         \* fetchEventData invocations, in start order: their position
  deletes,         \* delete dialogs / deleteEvent invocations: id and position
  data,            \* pipeline run: the array returned by response.json()
  now,             \* pipeline run: new Date() taken for the filter
  upcomingEvents,  \* pipeline run: result of data.filter
  uniqueEvents,    \* pipeline run: result of removeDuplicateEvents
  step,            \* pipeline run: position inside the array branch
  pass             \* pipeline run: 1, or 2 when the stored list is fed back

vars == <<events, loading, userId, lookup, focused, fetches, deletes,
          data, now, upcomingEvents, uniqueEvents, step, pass>>
screenVars == <<events, loading, userId, lookup, focused, fetches, deletes>>
runVars == <<data, now, upcomingEvents, uniqueEvents, step, pass>>

(* ------------------- the reconciliation pipeline ----------------------- *)

\* Variant: the comparison turned round (eventEndTime <= now).
IsUpcoming_Reversed(event, t) == DateGE(DateOf(t), ParseDate(event.end_time))

\* Variant: the test written as !(eventEndTime < now), which Invalid Date passes.
IsUpcoming_NotBefore(event, t) ==
  ~(ParseDate(event.end_time).valid /\ ParseDate(event.end_time).time < t)

\* The filter callback: new Date(event.end_time) >= now.
IsUpcoming(event, t) == DateGE(ParseDate(event.end_time), DateOf(t))

\* data.filter(callback): the elements the callback accepts, in order.
FilterUpcoming(list, t) == SelectSeq(list, LAMBDA event : IsUpcoming(event, t))

\* Map<number, EventData>: entries in insertion order.
MapHas(map, key) == \E i \in DOMAIN map : map[i].key = key
MapSet(map, key, value) ==
  IF MapHas(map, key)
  THEN [i \in DOMAIN map |->
          IF map[i].key = key THEN [key |-> key, value |-> value] ELSE map[i]]
  ELSE Append(map, [key |-> key, value |-> value])

\* Variant: the values collected newest first.
MapValues_Reversed(map) == [i \in DOMAIN map |-> map[Len(map) + 1 - i].value]

\* Array.from(map.values()): the values in insertion order.
MapValues(map) == [i \in DOMAIN map |-> map[i].value]

\* Variant: set() called for every event, so the last record of an id wins.
RECURSIVE ForEachInsert_LastWins(_, _)
ForEachInsert_LastWins(list, uniqueEventMap) ==
  IF list = <<>> THEN uniqueEventMap
  ELSE ForEachInsert_LastWins(Tail(list),
         MapSet(uniqueEventMap, Head(list).event_id, Head(list)))

\* events.forEach(...): visit the elements in order, inserting an event only
\* when its event_id is not yet a key.
RECURSIVE ForEachInsert(_, _)
ForEachInsert(list, uniqueEventMap) ==
  IF list = <<>> THEN uniqueEventMap
  ELSE ForEachInsert(Tail(list),
         IF ~MapHas(uniqueEventMap, Head(list).event_id)
         THEN MapSet(uniqueEventMap, Head(list).event_id, Head(list))
         ELSE uniqueEventMap)

\* Variant: the map keyed by the event object, so nothing is ever a repeat.
removeDuplicateEvents_ByObject(list) == list

removeDuplicateEvents(list) == MapValues(ForEachInsert(list, <<>>))

\* Variant: === in place of !==.
FilterOutId_Inverted(prevEvents, eventId) ==
  SelectSeq(prevEvents, LAMBDA event : event.event_id = eventId)

\* prevEvents.filter((event) => event.event_id !== eventId)
FilterOutId(prevEvents, eventId) ==
  SelectSeq(prevEvents, LAMBDA event : event.event_id # eventId)

(* ------------------------------ Init ----------------------------------- *)
RunIdle ==
  /\ data = <<>>
  /\ now = 1
  /\ upcomingEvents = <<>>
  /\ uniqueEvents = <<>>
  /\ step = "idle"
  /\ pass = 1

ScreenInit ==
  /\ events = <<>>
  /\ loading = TRUE
  /\ userId = null
  /\ lookup = "pending"
  /\ focused = TRUE
  /\ fetches = <<>>
  /\ deletes = <<>>

Init == ScreenInit /\ RunIdle

(* ------------------------- getUserId (effect) -------------------------- *)

\* fetchEventData up to its first await: with a user id it sets loading and
\* issues the request; without one it does nothing.
StartFetch(uid) ==
  IF uid # null
  THEN /\ loading' = TRUE
       /\ fetches' = Append(fetches, "awaitFetch")
  ELSE UNCHANGED <<loading, fetches>>

\* getItem resolved with an id: setUserId(id).  The focus effect depends on
\* userId, so on a focused screen it runs again with the new id.
GetUserIdFound(id) ==
  /\ lookup = "pending"
  /\ lookup' = "found"
  /\ userId' = id
  /\ IF focused THEN StartFetch(id) ELSE UNCHANGED <<loading, fetches>>
  /\ UNCHANGED <<events, focused, deletes>>
  /\ UNCHANGED runVars

\* getItem resolved with null.
GetUserIdMissing ==
  /\ lookup = "pending"
  /\ lookup' = "missing"
  /\ loading' = FALSE
  /\ UNCHANGED <<events, userId, focused, fetches, deletes>>
  /\ UNCHANGED runVars

\* getItem rejected.
GetUserIdError ==
  /\ lookup = "pending"
  /\ lookup' = "error"
  /\ loading' = FALSE
  /\ UNCHANGED <<events, userId, focused, fetches, deletes>>
  /\ UNCHANGED runVars

(* ------------------------- focus and blur ------------------------------ *)
\* The user leaves the screen (back, or a push to another screen), which an
\* open confirmation dialog does not allow.
Blur ==
  /\ focused
  /\ \A d \in DOMAIN deletes : deletes[d].at # "confirm"
  /\ focused' = FALSE
  /\ UNCHANGED <<events, loading, userId, lookup, fetches, deletes>>
  /\ UNCHANGED runVars

\* The screen regains focus: the effect calls fetchEventData().
Focus ==
  /\ ~focused
  /\ userId = null \/ Len(fetches) < MaxFetches
  /\ focused' = TRUE
  /\ StartFetch(userId)
  /\ UNCHANGED <<events, userId, lookup, deletes>>
  /\ UNCHANGED runVars

(* -------------------------- fetchEventData ----------------------------- *)
SetFetch(g, position) == fetches' = [fetches EXCEPT ![g] = position]

\* fetch resolved with response.ok: go on to response.json().
FetchResponseOk(g) ==
  /\ fetches[g] = "awaitFetch"
  /\ SetFetch(g, "awaitJson")
  /\ UNCHANGED <<events, loading, userId, lookup, focused, deletes>>
  /\ UNCHANGED runVars

\* Variant: the early return without setLoading(false) and outside the try.
FetchHttpError_KeepsLoading(g) ==
  /\ fetches[g] = "awaitFetch"
  /\ fetches' = [fetches EXCEPT ![g] = "httpError"]
  /\ UNCHANGED <<events, loading, userId, lookup, focused, deletes>>
  /\ UNCHANGED runVars

\* fetch resolved with !response.ok: log, setLoading(false), return (and the
\* finally block sets loading to false again).
FetchHttpError(g) ==
  /\ fetches[g] = "awaitFetch"
  /\ SetFetch(g, "httpError")
  /\ loading' = FALSE
  /\ UNCHANGED <<events, userId, lookup, focused, deletes>>
  /\ UNCHANGED runVars

\* fetch rejected: catch logs, finally sets loading to false.
FetchRejected(g) ==
  /\ fetches[g] = "awaitFetch"
  /\ SetFetch(g, "fetchError")
  /\ loading' = FALSE
  /\ UNCHANGED <<events, userId, lookup, focused, deletes>>
  /\ UNCHANGED runVars

\* response.json() resolved with an array: filter, deduplicate, setEvents,
\* then finally.
FetchJsonArray(g, payload, t) ==
  /\ fetches[g] = "awaitJson"
  /\ SetFetch(g, "stored")
  /\ events' = removeDuplicateEvents(FilterUpcoming(payload, t))
  /\ loading' = FALSE
  /\ UNCHANGED <<userId, lookup, focused, deletes>>
  /\ UNCHANGED runVars

\* Variant: the else branch also calls setEvents([]).
FetchJsonInvalid_Clears(g) ==
  /\ fetches[g] = "awaitJson"
  /\ fetches' = [fetches EXCEPT ![g] = "invalidData"]
  /\ events' = <<>>
  /\ loading' = FALSE
  /\ UNCHANGED <<userId, lookup, focused, deletes>>
  /\ UNCHANGED runVars

\* response.json() resolved with something that is not an array: the else
\* branch only logs; finally sets loading to false.
FetchJsonInvalid(g) ==
  /\ fetches[g] = "awaitJson"
  /\ SetFetch(g, "invalidData")
  /\ loading' = FALSE
  /\ UNCHANGED <<events, userId, lookup, focused, deletes>>
  /\ UNCHANGED runVars

\* response.json() rejected (or anything in the try block threw): catch
\* logs, finally sets loading to false.
FetchJsonRejected(g) ==
  /\ fetches[g] = "awaitJson"
  /\ SetFetch(g, "fetchError")
  /\ loading' = FALSE
  /\ UNCHANGED <<events, userId, lookup, focused, deletes>>
  /\ UNCHANGED runVars

(* ----------------------- handleDelete / deleteEvent -------------------- *)
SetDelete(d, position) == deletes' = [deletes EXCEPT ![d].at = position]

\* The delete button of a rendered event: the list is rendered only when
\* loading is false, and pressed on the focused screen; Alert.alert opens a
\* modal confirmation.
HandleDelete(eventId) ==
  /\ focused
  /\ ~loading
  /\ \E i \in DOMAIN events : events[i].event_id = eventId
  /\ \A d \in DOMAIN deletes : deletes[d].at # "confirm"
  /\ Len(deletes) < MaxDeletes
  /\ deletes' = Append(deletes, [eventId |-> eventId, at |-> "confirm"])
  /\ UNCHANGED <<events, loading, userId, lookup, focused, fetches>>
  /\ UNCHANGED runVars

\* "Cancel" pressed (or the dialog dismissed): nothing is left of it.
CancelDelete(d) ==
  /\ deletes[d].at = "confirm"
  /\ deletes' = SubSeq(deletes, 1, d - 1) \o SubSeq(deletes, d + 1, Len(deletes))
  /\ UNCHANGED <<events, loading, userId, lookup, focused, fetches>>
  /\ UNCHANGED runVars

\* "Delete" pressed: deleteEvent(eventId) sends the DELETE request.
ConfirmDelete(d) ==
  /\ deletes[d].at = "confirm"
  /\ SetDelete(d, "awaitFetch")
  /\ UNCHANGED <<events, loading, userId, lookup, focused, fetches>>
  /\ UNCHANGED runVars

\* The events list after the DELETE response has been received.
EventsAfterDeleteResponse(prevEvents, eventId, ok) ==
  IF ok THEN FilterOutId(prevEvents, eventId) ELSE prevEvents

\* fetch resolved with response.ok: alert, then the functional setEvents.
DeleteResponseOk(d) ==
  /\ deletes[d].at = "awaitFetch"
  /\ SetDelete(d, "success")
  /\ events' = EventsAfterDeleteResponse(events, deletes[d].eventId, TRUE)
  /\ UNCHANGED <<loading, userId, lookup, focused, fetches>>
  /\ UNCHANGED runVars

\* fetch resolved with !response.ok: go on to response.json().
DeleteResponseNotOk(d) ==
  /\ deletes[d].at = "awaitFetch"
  /\ SetDelete(d, "awaitErrorJson")
  /\ events' = EventsAfterDeleteResponse(events, deletes[d].eventId, FALSE)
  /\ UNCHANGED <<loading, userId, lookup, focused, fetches>>
  /\ UNCHANGED runVars

\* Variant: the event removed whatever the outcome of the request.
EventsAfterDeleteError_Removes(prevEvents, eventId) ==
  FilterOutId(prevEvents, eventId)

\* The events list after deleteEvent's catch block or error alert.
EventsAfterDeleteError(prevEvents, eventId) == prevEvents

\* fetch rejected: catch logs and alerts.
DeleteRejected(d) ==
  /\ deletes[d].at = "awaitFetch"
  /\ SetDelete(d, "networkError")
  /\ events' = EventsAfterDeleteError(events, deletes[d].eventId)
  /\ UNCHANGED <<loading, userId, lookup, focused, fetches>>
  /\ UNCHANGED runVars

\* The error body parsed: log, alert with its message or the generic one.
DeleteErrorJson(d) ==
  /\ deletes[d].at = "awaitErrorJson"
  /\ SetDelete(d, "error")
  /\ events' = EventsAfterDeleteError(events, deletes[d].eventId)
  /\ UNCHANGED <<loading, userId, lookup, focused, fetches>>
  /\ UNCHANGED runVars

\* The error body could not be parsed: catch logs and alerts.
DeleteErrorJsonRejected(d) ==
  /\ deletes[d].at = "awaitErrorJson"
  /\ SetDelete(d, "networkError")
  /\ events' = EventsAfterDeleteError(events, deletes[d].eventId)
  /\ UNCHANGED <<loading, userId, lookup, focused, fetches>>
  /\ UNCHANGED runVars

(* --------------------------- the screen -------------------------------- *)
\* The mount effect: getUserId settles, once.
GetUserIdSettles ==
  \/ \E id \in UserIds : GetUserIdFound(id)
  \/ GetUserIdMissing
  \/ GetUserIdError

\* Everything else the mounted screen does.
ScreenNext ==
  \/ Blur
  \/ Focus
  \/ \E g \in DOMAIN fetches : FetchResponseOk(g)
  \/ \E g \in DOMAIN fetches : FetchHttpError(g)
  \/ \E g \in DOMAIN fetches : FetchRejected(g)
  \/ \E g \in DOMAIN fetches : \E payload \in Responses :
        \E t \in Instants : FetchJsonArray(g, payload, t)
  \/ \E g \in DOMAIN fetches : FetchJsonInvalid(g)
  \/ \E g \in DOMAIN fetches : FetchJsonRejected(g)
  \/ \E eventId \in EventIds : HandleDelete(eventId)
  \/ \E d \in DOMAIN deletes : CancelDelete(d)
  \/ \E d \in DOMAIN deletes : ConfirmDelete(d)
  \/ \E d \in DOMAIN deletes : DeleteResponseOk(d)
  \/ \E d \in DOMAIN deletes : DeleteResponseNotOk(d)
  \/ \E d \in DOMAIN deletes : DeleteRejected(d)
  \/ \E d \in DOMAIN deletes : DeleteErrorJson(d)
  \/ \E d \in DOMAIN deletes : DeleteErrorJsonRejected(d)

Next == GetUserIdSettles \/ ScreenNext

Spec == Init /\ [][Next]_vars

\* A step of invocation g of fetchEventData: one of its requests settles.
FetchSettles(g) ==
  /\ g \in DOMAIN fetches
  /\ \/ FetchResponseOk(g) \/ FetchHttpError(g) \/ FetchRejected(g)
     \/ FetchJsonInvalid(g) \/ FetchJsonRejected(g)
     \/ /\ fetches[g] = "awaitJson"
        /\ \E payload \in Responses :
             \E t \in Instants : FetchJsonArray(g, payload, t)

\* The lookup and every network request eventually settle.
FairSpec ==
  /\ Spec
  /\ WF_vars(GetUserIdSettles)
  /\ \A g \in 1..MaxFetches : WF_vars(FetchSettles(g))

(* ------------- the screen holding a list a fetch has stored ------------ *)

\* Every list the array branch of fetchEventData can store.
StorableLists ==
  {removeDuplicateEvents(FilterUpcoming(payload, t)) :
     payload \in SeqsUpTo(EventData, MaxLen), t \in Instants}

\* The screen right after its first fetch stored a list: the lookup is over.
HeldInit ==
  /\ events \in StorableLists
  /\ loading = FALSE
  /\ userId \in UserIds
  /\ lookup = "found"
  /\ focused = TRUE
  /\ fetches = <<"stored">>
  /\ deletes = <<>>
  /\ RunIdle

HeldSpec == HeldInit /\ [][ScreenNext]_vars

(* ------------- one array response traced through the pipeline ---------- *)

\* response.json() has just resolved with an array, in the first fetch.
RunInit ==
  /\ events = <<>>
  /\ loading = TRUE
  /\ userId \in UserIds
  /\ lookup = "found"
  /\ focused = TRUE
  /\ fetches = <<"awaitJson">>
  /\ deletes = <<>>
  /\ data \in SeqsUpTo(EventData, MaxLen)
  /\ now = 1
  /\ upcomingEvents = <<>>
  /\ uniqueEvents = <<>>
  /\ step = "json"
  /\ pass = 1

\* const now = new Date()
RunTakeNow(t) ==
  /\ step = "json"
  /\ now' = t
  /\ step' = "now"
  /\ UNCHANGED <<data, upcomingEvents, uniqueEvents, pass>>
  /\ UNCHANGED screenVars

\* const upcomingEvents = data.filter(...)
RunFilter ==
  /\ step = "now"
  /\ upcomingEvents' = FilterUpcoming(data, now)
  /\ step' = "filtered"
  /\ UNCHANGED <<data, now, uniqueEvents, pass>>
  /\ UNCHANGED screenVars

\* const uniqueEvents = removeDuplicateEvents(upcomingEvents)
RunDedupe ==
  /\ step = "filtered"
  /\ uniqueEvents' = removeDuplicateEvents(upcomingEvents)
  /\ step' = "deduped"
  /\ UNCHANGED <<data, now, upcomingEvents, pass>>
  /\ UNCHANGED screenVars

\* setEvents(uniqueEvents), then finally: setLoading(false)
RunStore ==
  /\ step = "deduped"
  /\ events' = uniqueEvents
  /\ loading' = FALSE
  /\ fetches' = <<"stored">>
  /\ step' = "stored"
  /\ UNCHANGED <<data, now, upcomingEvents, uniqueEvents, pass>>
  /\ UNCHANGED <<userId, lookup, focused, deletes>>

\* The stored list comes back as the next payload and is processed at the
\* same instant.
RunAgain ==
  /\ step = "stored"
  /\ pass = 1
  /\ data' = events
  /\ pass' = 2
  /\ step' = "now"
  /\ loading' = TRUE
  /\ fetches' = <<"awaitJson">>
  /\ UNCHANGED <<now, upcomingEvents, uniqueEvents>>
  /\ UNCHANGED <<events, userId, lookup, focused, deletes>>

RunNext ==
  \/ \E t \in Instants : RunTakeNow(t)
  \/ RunFilter
  \/ RunDedupe
  \/ RunStore
  \/ RunAgain

ReconcileSpec == RunInit /\ [][RunNext]_vars
(* ============================ properties =============================== *)

\* The elements of list at the positions in I, in increasing position.
SubSeqAt(list, I) ==
  LET at(k) == CHOOSE i \in I : Cardinality({j \in I : j <= i}) = k
  IN  [k \in 1..Cardinality(I) |-> list[at(k)]]

\* The record's end_time denotes an instant at or after t.
EndsAtOrAfter(event, t) ==
  \E k \in Instants : IsoString(k) = event.end_time /\ k >= t

\* The record's end_time denotes no instant.
HasBadEndTime(event) == \A k \in Instants : IsoString(k) # event.end_time

\* Positions of the first record of each event_id among those ending at or
\* after t.
FirstUpcomingPositions(list, t) ==
  {i \in DOMAIN list :
     /\ EndsAtOrAfter(list[i], t)
     /\ \A j \in 1..(i - 1) :
          ~(list[j].event_id = list[i].event_id /\ EndsAtOrAfter(list[j], t))}

InFlight(g) == g \in DOMAIN fetches /\ fetches[g] \in {"awaitFetch", "awaitJson"}
Settled(g) == g \in DOMAIN fetches /\ fetches[g] \notin {"awaitFetch", "awaitJson"}

\* C1: the list a fetch stores with setEvents holds no two records with the
\* same event_id, whatever the length of the payload and however often an
\* event_id repeats in it.
C1_StoredIdsUnique ==
  step = "stored" =>
    \A i, j \in DOMAIN events :
      i # j => events[i].event_id # events[j].event_id

C1_Witness ==
  /\ step = "stored"
  /\ Len(events) = 1
  /\ \E i, j, k \in DOMAIN data :
       /\ i < j /\ j < k
       /\ data[i].event_id = data[j].event_id
       /\ data[j].event_id = data[k].event_id
       /\ EndsAtOrAfter(data[i], now)
       /\ EndsAtOrAfter(data[j], now)
       /\ EndsAtOrAfter(data[k], now)

\* C2: every record of the stored list has an end_time at or after the "now"
\* taken when the response was processed.
C2_StoredNotEnded ==
  step = "stored" => \A i \in DOMAIN events : EndsAtOrAfter(events[i], now)

C2_Witness ==
  /\ step = "stored"
  /\ \E i \in DOMAIN data :
       \E k \in Instants : IsoString(k) = data[i].end_time /\ k < now
  /\ \E i \in DOMAIN events : events[i].end_time = IsoString(now)

\* C3: the stored list is the subsequence of the payload made of the first
\* record of each event_id among the records with end_time >= now, in
\* payload order.
C3_FirstOccurrenceInOrder ==
  step = "stored" => events = SubSeqAt(data, FirstUpcomingPositions(data, now))

C3_Witness ==
  /\ step = "stored"
  /\ Len(events) = 2
  /\ \E i, j \in DOMAIN data :
       /\ i < j
       /\ data[i].event_id = data[j].event_id
       /\ data[i] # data[j]
       /\ EndsAtOrAfter(data[i], now) /\ EndsAtOrAfter(data[j], now)

\* C4: feeding a stored list through the filter and removeDuplicateEvents
\* again, with the same now, stores an identical list.
C4_Idempotent ==
  (step = "stored" /\ pass = 2) => events = data

C4_Witness ==
  /\ step = "stored"
  /\ pass = 2
  /\ Len(events) >= 2

\* C5: a record whose end_time cannot be parsed is left out of the stored
\* list, and the list stored is the one the other records of the payload
\* yield on their own; a payload made of one such record stores <<>>.
C5_UnparseableExcluded ==
  step = "stored" =>
    /\ \A i \in DOMAIN events : ~HasBadEndTime(events[i])
    /\ events =
         removeDuplicateEvents(
           FilterUpcoming(SelectSeq(data, LAMBDA e : ~HasBadEndTime(e)), now))
    /\ (Len(data) = 1 /\ HasBadEndTime(data[1])) => events = <<>>

C5_Witness ==
  /\ step = "stored"
  /\ pass = 1
  /\ Len(data) >= 2
  /\ HasBadEndTime(data[1])
  /\ Len(events) >= 1
  /\ fetches = <<"stored">>

\* C6: a successful delete response turns the held list into the previous
\* list without the records of that event_id, the others unchanged and in
\* the same order.
C6_DeleteRemovesOnlyThatId ==
  [][\A d \in DOMAIN deletes :
       (deletes[d].at = "awaitFetch" /\ deletes'[d].at = "success") =>
         events' = SubSeqAt(events,
                     {i \in DOMAIN events :
                        events[i].event_id # deletes[d].eventId})]_vars

C6_Witness ==
  /\ fetches = <<"stored">>
  /\ Len(events) = 2
  /\ \E d \in DOMAIN deletes :
       /\ deletes[d].at = "success"
       /\ \A i \in DOMAIN events : events[i].event_id # deletes[d].eventId

\* C7: a delete that fails (non-ok response, rejected request, error body
\* that cannot be parsed) leaves the held list exactly as it was.
C7_FailedDeleteKeepsList ==
  [][\A d \in DOMAIN deletes :
       ( /\ deletes[d].at \in {"awaitFetch", "awaitErrorJson"}
         /\ deletes'[d].at \in {"awaitErrorJson", "error", "networkError"}
         /\ deletes'[d].at # deletes[d].at ) =>
         events' = events]_vars

C7_Witness ==
  /\ fetches = <<"stored">>
  /\ \E d \in DOMAIN deletes :
       /\ deletes[d].at \in {"error", "networkError"}
       /\ \E i \in DOMAIN events : events[i].event_id = deletes[d].eventId

\* C8: when the most recently started fetch has stored its list, the
\* response of an earlier invocation that arrives afterwards is discarded:
\* the held list stays the result of the most recently started fetch.
C8_StaleResultDiscarded ==
  [][\A g \in DOMAIN fetches :
       ( /\ g < Len(fetches)
         /\ fetches[Len(fetches)] = "stored"
         /\ fetches[g] = "awaitJson"
         /\ fetches'[g] = "stored" ) =>
         events' = events]_vars

\* C9 as stated: after a fetch whose payload is not an array, the list shown
\* is empty.
C9_InvalidPayloadShowsNothing ==
  [][\A g \in DOMAIN fetches :
       (fetches[g] = "awaitJson" /\ fetches'[g] = "invalidData") =>
         events' = <<>>]_vars

\* C9 as amended: a fetch whose payload is not an array stores nothing; the
\* held list stays what it was (the earlier list, or empty if there was
\* none) and loading becomes false.
C9_InvalidPayloadKeepsList ==
  [][\A g \in DOMAIN fetches :
       (fetches[g] = "awaitJson" /\ fetches'[g] = "invalidData") =>
         (events' = events /\ loading' = FALSE)]_vars

C9_Witness ==
  /\ Len(fetches) = 2
  /\ fetches[1] = "stored"
  /\ fetches[2] = "invalidData"
  /\ events # <<>>
  /\ deletes = <<>>

\* C10: with the lookup and every request eventually settling, a lookup that
\* finds no user id or fails sets loading to false;
\* every fetchEventData invocation settles and sets loading to false when it
\* does, by whichever exit; and a focused screen does not stay on loading.
C10_LoadingEnds ==
  /\ [][(lookup = "pending" /\ lookup' \in {"missing", "error"}) =>
          loading' = FALSE]_vars
  /\ [][\A g \in DOMAIN fetches :
          (InFlight(g) /\ fetches'[g] \notin {"awaitFetch", "awaitJson"}) =>
            loading' = FALSE]_vars
  /\ \A g \in 1..MaxFetches : InFlight(g) ~> Settled(g)
  /\ (loading /\ focused) ~> (~loading \/ ~focused)

C10_Witness ==
  /\ ~loading
  /\ focused
  /\ Len(fetches) = 2
  /\ fetches[1] = "httpError"
  /\ fetches[2] = "stored"
====
